---- MODULE Spec2Model ----
(***************************************************************************)
(* A model of the data pipeline of TargetSpeakerEnhance (dataset.py):      *)
(* the decode cache (CachedLoader), the clip-bound and mixing functions    *)
(* (MixedAudioDataset.get_max_mul / overlap_dirty_segment), the two        *)
(* datasets (MixedAudioDataset, N2NMixedAudioDataset) and the batch        *)
(* collation (collate_fn / pad_seq_n_stack).                               *)
(*                                                                         *)
(* Samples are floating-point numbers in the source.  Here a number is a   *)
(* pair <<n, d>>: the exact rational n/d in lowest terms when d > 0, and   *)
(* the IEEE-754 special values when d = 0 (<<1,0>> = +inf, <<-1,0>> =      *)
(* -inf, <<0,0>> = NaN).  Rounding of finite results is not modelled; the  *)
(* special values and their arithmetic are.                                *)
(*                                                                         *)
(* Three specifications: Spec (the two datasets and the cache in use),     *)
(* SpecMix (overlap_dirty_segment over all its inputs and draws) and       *)
(* SpecCollate (collate_fn over all its inputs).                           *)
(***************************************************************************)
EXTENDS Integers, Sequences, FiniteSets, TLC

(***************************************************************************)
(* Bounds of the model.                                                    *)
(***************************************************************************)
\* samples are the multiples k/Q of 1/Q with -Q <= k <= Q
Q == 2
\* the uniform draw u of random.random() ranges over j/U, 0 <= j < U
U == 2
\* longest clean waveform of the mixing specification
MaxLen == 2
\* how many decode failures the environment injects in one run
MaxFaults == 2
\* largest |alignment|, largest batch and longest waveform of the collation
\* specification
MaxAlign == 3
MaxBatch == 2
MaxWav == 4

VARIABLES
    \* ---- MixedAudioDataset / N2NMixedAudioDataset / CachedLoader ----
    map,            \* CachedLoader.map: path -> decoded waveform, or Absent
    decode_ok,      \* per path: how often read_wav_at_FS returned
    decode_err,     \* per path: how often read_wav_at_FS raised
    last,           \* the outcome of the last dataset call
    \* ---- overlap_dirty_segment as a function of its inputs ----
    clean_audio,    \* argument clean_audio
    dirty_audio,    \* argument dirty_audio
    mix,            \* the outcome of the call
    \* ---- collate_fn as a function of its inputs ----
    alignment,      \* argument alignment
    batch,          \* argument batch
    collated        \* the outcome of the call

dataset_vars == <<map, decode_ok, decode_err, last>>
mix_vars == <<clean_audio, dirty_audio, mix>>
collate_vars == <<alignment, batch, collated>>
vars == <<map, decode_ok, decode_err, last, clean_audio, dirty_audio, mix,
          alignment, batch, collated>>

(***************************************************************************)
(* Floating-point numbers: exact rationals plus inf and NaN.               *)
(***************************************************************************)
Abs(x) == IF x < 0 THEN -x ELSE x

Sgn(x) == IF x < 0 THEN -1 ELSE IF x > 0 THEN 1 ELSE 0

RECURSIVE Gcd(_, _)
Gcd(a, b) == IF b = 0 THEN a ELSE Gcd(b, a % b)

\* the number n/d, d > 0, in lowest terms
Rat(n, d) ==
    LET g == Gcd(Abs(n), d) IN <<n \div g, d \div g>>

PosInf == <<1, 0>>
NaN == <<0, 0>>

IsNaN(x) == x[2] = 0 /\ x[1] = 0
IsInf(x) == x[2] = 0 /\ x[1] # 0
IsFinite(x) == x[2] > 0

FInt(k) == <<k, 1>>

\* the sign of a number that is not NaN
FSign(x) == Sgn(x[1])

FNeg(x) == <<-x[1], x[2]>>

FAbs(x) == <<Abs(x[1]), x[2]>>

\* x * y: inf * 0 = NaN, inf * y = +-inf, NaN * y = NaN
FMul(x, y) ==
    IF IsNaN(x) \/ IsNaN(y) THEN NaN
    ELSE IF IsInf(x) \/ IsInf(y)
         THEN <<FSign(x) * FSign(y), 0>>
         ELSE Rat(x[1] * y[1], x[2] * y[2])

\* x + y: inf + (-inf) = NaN, inf + y = inf, NaN + y = NaN
FAdd(x, y) ==
    IF IsNaN(x) \/ IsNaN(y) THEN NaN
    ELSE IF IsInf(x) /\ IsInf(y)
         THEN (IF x[1] = y[1] THEN x ELSE NaN)
         ELSE IF IsInf(x) THEN x
         ELSE IF IsInf(y) THEN y
         ELSE Rat(x[1] * y[2] + y[1] * x[2], x[2] * y[2])

FSub(x, y) == FAdd(x, FNeg(y))

\* x / y: y / 0 = +-inf, 0 / 0 = NaN, y / inf = 0, inf / inf = NaN
FDiv(x, y) ==
    IF IsNaN(x) \/ IsNaN(y) THEN NaN
    ELSE IF IsInf(y) THEN (IF IsInf(x) THEN NaN ELSE FInt(0))
    ELSE IF IsInf(x) THEN <<FSign(x) * (IF FSign(y) < 0 THEN -1 ELSE 1), 0>>
    ELSE IF y[1] = 0 THEN <<FSign(x), 0>>
    ELSE Rat(x[1] * y[2] * Sgn(y[1]), x[2] * Abs(y[1]))

\* x < y; every comparison with NaN is false
FLt(x, y) ==
    /\ ~IsNaN(x)
    /\ ~IsNaN(y)
    /\ IF IsInf(x) THEN x[1] < 0 /\ y # x
       ELSE IF IsInf(y) THEN y[1] > 0
       ELSE x[1] * y[2] < y[1] * x[2]

FLe(x, y) == ~IsNaN(x) /\ ~IsNaN(y) /\ (x = y \/ FLt(x, y))

\* Python's min(a, b): b only when b < a
FMin(a, b) == IF FLt(b, a) THEN b ELSE a

\* min over the elements of a non-empty set of numbers (tensor.min())
SetMin(S) == CHOOSE m \in S : \A x \in S : FLe(m, x)

\* -1 <= x <= 1; false of NaN and of the infinities
InUnit(x) == FLe(FInt(-1), x) /\ FLe(x, FInt(1))

(***************************************************************************)
(* Waveforms: a 1 x T tensor is the sequence of its T samples.             *)
(***************************************************************************)
Samples == {Rat(k, Q) : k \in -Q..Q}

SeqsOf(S, lo, hi) == UNION {[1..n -> S] : n \in lo..hi}

Zero == FInt(0)

(***************************************************************************)
(* MixedAudioDataset.get_max_mul                                           *)
(***************************************************************************)
\* positive_mask = dirty > 0, negative_mask = dirty < 0
positive_mask(dirty) == {i \in 1..Len(dirty) : FLt(Zero, dirty[i])}
negative_mask(dirty) == {i \in 1..Len(dirty) : FLt(dirty[i], Zero)}

\* lowerbound = (-1 - clean) / dirty, upperbound = (1 - clean) / dirty
lowerbound(clean, dirty) ==
    [i \in 1..Len(clean) |-> FDiv(FSub(FInt(-1), clean[i]), dirty[i])]
upperbound(clean, dirty) ==
    [i \in 1..Len(clean) |-> FDiv(FSub(FInt(1), clean[i]), dirty[i])]

\* bound[mask].abs().min().item()
MaskedAbsMin(bound, mask) == SetMin({FAbs(bound[i]) : i \in mask})

get_max_mul(clean, dirty) ==
    LET lo == lowerbound(clean, dirty)
        up == upperbound(clean, dirty)
        pos == positive_mask(dirty)
        neg == negative_mask(dirty)
        w0 == PosInf
        w1 == IF pos # {}
              THEN FMin(FMin(w0, MaskedAbsMin(lo, pos)), MaskedAbsMin(up, pos))
              ELSE w0
        w2 == IF neg # {}
              THEN FMin(FMin(w1, MaskedAbsMin(lo, neg)), MaskedAbsMin(up, neg))
              ELSE w1
    IN w2

(***************************************************************************)
(* MixedAudioDataset.overlap_dirty_segment                                 *)
(***************************************************************************)
\* the values random.random() takes in the model: j / U, 0 <= j < U
Uniform == {Rat(j, U) : j \in 0..(U - 1)}

\* random.randint(0, len_dirty - len_clean): empty when the range is
StartPoints(clean, dirty) == 0..(Len(dirty) - Len(clean))

\* dirty_audio[:, start_point : start_point + len_clean]
Segment(dirty, start_point, len_clean) ==
    [i \in 1..len_clean |-> dirty[start_point + i]]

\* dirty_weight = 1 - random.random() ** 2
dirty_weight(u) == FSub(FInt(1), FMul(u, u))

\* clean_audio + dirty_weight * max_mul * dirty_segment, evaluated left to
\* right: the two Python floats are multiplied first, then the tensor
Overlapped(clean, dirty_segment, u) ==
    LET max_mul == get_max_mul(clean, dirty_segment)
        scale == FMul(dirty_weight(u), max_mul)
    IN [i \in 1..Len(clean) |-> FAdd(clean[i], FMul(scale, dirty_segment[i]))]

\* a variant that lets a too short dirty waveform pass and returns the
\* clean waveform unmixed
overlap_dirty_segment_lenient(clean, dirty, start_point, u) ==
    IF Len(dirty) - Len(clean) < 0
    THEN [status |-> "ok", out |-> clean]
    ELSE [status |-> "ok",
          out |-> Overlapped(clean, Segment(dirty, start_point, Len(clean)), u)]

\* the call with its two random draws made explicit; randint raises
\* ValueError on an empty range
overlap_dirty_segment(clean, dirty, start_point, u) ==
    IF Len(dirty) - Len(clean) < 0
    THEN [status |-> "ValueError", out |-> <<>>]
    ELSE [status |-> "ok",
          out |-> Overlapped(clean, Segment(dirty, start_point, Len(clean)), u)]

(***************************************************************************)
(* The mixing function on its own: Init draws the two waveforms, the one   *)
(* action applies overlap_dirty_segment with every pair of random draws.   *)
(***************************************************************************)
NoMix == [pc |-> "call", start |-> 0, u |-> Zero, segment |-> <<>>,
          max_mul |-> Zero, out |-> <<>>]

MixInputs ==
    /\ clean_audio \in SeqsOf(Samples, 1, MaxLen)
    /\ dirty_audio \in SeqsOf(Samples, 0, MaxLen + 1)

MixCall ==
    /\ mix.pc = "call"
    /\ Len(dirty_audio) >= Len(clean_audio)
    /\ \E start_point \in StartPoints(clean_audio, dirty_audio), u \in Uniform :
         LET r == overlap_dirty_segment(clean_audio, dirty_audio, start_point, u)
             seg == Segment(dirty_audio, start_point, Len(clean_audio))
         IN mix' = [pc |-> "done", start |-> start_point, u |-> u,
                    segment |-> seg,
                    max_mul |-> get_max_mul(clean_audio, seg),
                    out |-> r.out]
    /\ UNCHANGED <<clean_audio, dirty_audio>>

MixRaise ==
    /\ mix.pc = "call"
    /\ Len(dirty_audio) < Len(clean_audio)
    /\ mix' = [NoMix EXCEPT !.pc =
                 overlap_dirty_segment(clean_audio, dirty_audio, 0, Zero).status]
    /\ UNCHANGED <<clean_audio, dirty_audio>>

(***************************************************************************)
(* The files.  clean_files and dirty_files are the two lists __init__      *)
(* globs.  A file holds a mono or a stereo recording; decoding it returns  *)
(* that recording or fails.  The lengths are chosen so that a dirty file   *)
(* can be longer than, as long as, and shorter than a clean file.          *)
(***************************************************************************)
clean_files == <<"c1.wav", "c2.wav">>
dirty_files == <<"d1.wav", "d2.mp3">>

Range(f) == {f[i] : i \in DOMAIN f}

Paths == Range(clean_files) \cup Range(dirty_files)

AllFiles == clean_files \o dirty_files

\* a number that tells the files apart
FileNo(path) == CHOOSE n \in DOMAIN AllFiles : AllFiles[n] = path

\* the number of samples of each file, in the order of AllFiles
FileLen(path) == <<1, MaxLen, MaxLen + 1, 1>>[FileNo(path)]

\* the samples of one channel: a different ramp over the sample grid for
\* every file and channel
Channel(n, len) ==
    [k \in 1..len |-> Rat(((n + k) % (2 * Q + 1)) - Q, Q)]

\* what torchaudio.load returns for a path: channels x samples; the second
\* file of each list is a stereo recording
Recording(path) ==
    IF FileNo(path) % 2 = 0
    THEN <<Channel(FileNo(path), FileLen(path)),
           Channel(FileNo(path) + 1, FileLen(path))>>
    ELSE <<Channel(FileNo(path), FileLen(path))>>

\* the decoder's outcomes: the recording, or the error torchaudio.load raises
Loads(path) ==
    {[status |-> "ok", y |-> Recording(path)],
     [status |-> "DecodeError", y |-> <<>>]}

RECURSIVE SumOver(_, _, _)
SumOver(y, k, c) == IF c = 0 THEN Zero ELSE FAdd(y[c][k], SumOver(y, k, c - 1))

\* y.mean(dim=0, keepdim=True)
ChannelMean(y) ==
    [k \in 1..Len(y[1]) |-> FDiv(SumOver(y, k, Len(y)), FInt(Len(y)))]

\* read_wav_at_FS on what torchaudio.load returned (at the rate FS, so
\* that the resampling branch is not taken)
read_wav_at_FS(load) ==
    IF load.status # "ok" THEN [status |-> load.status, wav |-> <<>>]
    ELSE [status |-> "ok",
          wav |-> IF Len(load.y) > 1 THEN ChannelMean(load.y) ELSE load.y[1]]

(***************************************************************************)
(* CachedLoader.  A cache state cs is [map, decode_ok, decode_err]: the    *)
(* dict and the two counters of decoder calls.                             *)
(***************************************************************************)
Bump(f, key) == [f EXCEPT ![key] = @ + 1]

\* the result of a lookup: the new cache state, the status, the value and
\* the event recorded of the lookup
Looked(cs, key, decoded, status, value) ==
    [cs |-> cs, status |-> status, value |-> value,
     event |-> [key |-> key, decoded |-> decoded, status |-> status,
                value |-> value]]

\* self.map[key] = <wav>; return self.map[key]
Store(cs, key, wav) ==
    Looked([cs EXCEPT !.map = (key :> wav) @@ @, !.decode_ok = Bump(@, key)],
           key, TRUE, "ok", wav)

\* a variant that swallows the decoder's error and caches an empty waveform
Miss_swallow(cs, key, r) ==
    IF r.status # "ok"
    THEN Looked([cs EXCEPT !.map = (key :> <<>>) @@ @,
                           !.decode_err = Bump(@, key)],
                key, TRUE, "ok", <<>>)
    ELSE Store(cs, key, r.wav)

\* the lookup of an absent key, r being what read_wav_at_FS did
Miss(cs, key, r) ==
    IF r.status # "ok"
    THEN Looked([cs EXCEPT !.decode_err = Bump(@, key)],
                key, TRUE, r.status, <<>>)
    ELSE Store(cs, key, r.wav)

\* a variant without the membership test: every lookup decodes
CachedLoader_getitem_uncached(cs, key, load) ==
    Store([cs EXCEPT !.map = [p \in DOMAIN @ \ {key} |-> @[p]]], key,
          read_wav_at_FS([status |-> "ok", y |-> Recording(key)]).wav)

\* CachedLoader.__getitem__(key), load being what the decoder does if it is
\* called
CachedLoader_getitem(cs, key, load) ==
    IF key \in DOMAIN cs.map
    THEN Looked(cs, key, FALSE, "ok", cs.map[key])
    ELSE Miss(cs, key, read_wav_at_FS(load))

(***************************************************************************)
(* MixedAudioDataset                                                       *)
(***************************************************************************)
\* MixedAudioDataset.__len__
MixedAudioDataset_len == Len(clean_files)

\* a variant that is off by one position
CleanFileAt_next(idx) == clean_files[(idx % Len(clean_files)) + 1]

\* clean_file = self.clean_files[idx]; positions count from 1 here
CleanFileAt(idx) == clean_files[idx]

\* The random draws and decoder outcomes of one __getitem__ call are a
\* record [dirty, load_clean, load_dirty, start, u]; NoLoad and NoDraw stand
\* for the decoder not being called and the draw not being made.
NoLoad == [status |-> "DecodeError", y |-> <<>>]
NoDraw == [start |-> 0, u |-> Zero]

\* the result of a call: the new cache state, the status, the returned pair
\* and the cache lookups made
Called(cs, idx, status, ret, lookups) ==
    [cs |-> cs, idx |-> idx, status |-> status, ret |-> ret,
     lookups |-> lookups]

\* mixed_wav = self.overlap_dirty_segment(clean_wav, dirty_wav);
\* return mixed_wav, clean_wav
Mixed(idx, c, g, o) ==
    IF o.status # "ok"
    THEN Called(g.cs, idx, o.status, <<>>, <<c.event, g.event>>)
    ELSE Called(g.cs, idx, "ok", <<o.out, c.value>>, <<c.event, g.event>>)

\* dirty_wav = self.cached_loader[dirty_file] and what follows
WithDirty(idx, d, c, g) ==
    IF g.status # "ok"
    THEN Called(g.cs, idx, g.status, <<>>, <<c.event, g.event>>)
    ELSE Mixed(idx, c, g,
               overlap_dirty_segment(c.value, g.value, d.start, d.u))

\* clean_wav = self.cached_loader[clean_file] and what follows
WithClean(idx, d, c) ==
    IF c.status # "ok"
    THEN Called(c.cs, idx, c.status, <<>>, <<c.event>>)
    ELSE WithDirty(idx, d, c,
                   CachedLoader_getitem(c.cs, dirty_files[d.dirty],
                                        d.load_dirty))

\* MixedAudioDataset.__getitem__(idx) from the cache state cs under the
\* draws d
MixedAudioDataset_getitem(cs, idx, d) ==
    WithClean(idx, d, CachedLoader_getitem(cs, CleanFileAt(idx), d.load_clean))

\* decode failures so far
Faults(cs) ==
    cs.decode_err[AllFiles[1]] + cs.decode_err[AllFiles[2]]
    + cs.decode_err[AllFiles[3]] + cs.decode_err[AllFiles[4]]

\* what the decoder can answer when cs is asked for key: nothing when key
\* is cached; a failure only while the model's budget of failures lasts
LoadChoices(cs, key) ==
    IF key \in DOMAIN cs.map THEN {NoLoad}
    ELSE {l \in Loads(key) : l.status = "ok" \/ Faults(cs) < MaxFaults}

\* random.randint's and random.random()'s values for the two waveforms
MixDraws(clean, dirty) ==
    IF Len(dirty) < Len(clean) THEN {NoDraw}
    ELSE [start : StartPoints(clean, dirty), u : Uniform]

\* the draws left when the dirty file di was looked up with result g
DrawsWithDirty(lc, di, ld, clean, g) ==
    {[dirty |-> di, load_clean |-> lc, load_dirty |-> ld,
      start |-> m.start, u |-> m.u] :
        m \in IF g.status # "ok" THEN {NoDraw}
              ELSE MixDraws(clean, g.value)}

\* the draws left when the clean file was looked up with result c
DrawsWithClean(lc, c) ==
    IF c.status # "ok"
    THEN {[dirty |-> 1, load_clean |-> lc, load_dirty |-> NoLoad,
           start |-> 0, u |-> Zero]}
    ELSE UNION {
           UNION {DrawsWithDirty(lc, di, ld, c.value,
                    CachedLoader_getitem(c.cs, dirty_files[di], ld))
                  : ld \in LoadChoices(c.cs, dirty_files[di])}
           : di \in 1..Len(dirty_files)}

\* the draws __getitem__(idx) can make from the cache state cs
DrawsFrom(cs, idx) ==
    UNION {DrawsWithClean(lc, CachedLoader_getitem(cs, CleanFileAt(idx), lc))
           : lc \in LoadChoices(cs, CleanFileAt(idx))}

(***************************************************************************)
(* N2NMixedAudioDataset                                                    *)
(***************************************************************************)
\* N2NMixedAudioDataset.__len__
N2NMixedAudioDataset_len == MixedAudioDataset_len

\* what is recorded of a wrapped call: its index, status and returned pair
Call(x) == [idx |-> x.idx, status |-> x.status, ret |-> x.ret]

\* the result of the wrapper's call; calls lists the wrapped calls made
Wrapped(cs, idx, status, ret, lookups, calls) ==
    [cs |-> cs, idx |-> idx, status |-> status, ret |-> ret,
     lookups |-> lookups, calls |-> calls]

\* a variant that hands out the clean waveform of the second call
Second_clean(idx, x, y) ==
    IF y.status # "ok"
    THEN Wrapped(y.cs, idx, y.status, <<>>, x.lookups \o y.lookups,
                 <<Call(x), Call(y)>>)
    ELSE Wrapped(y.cs, idx, "ok", <<x.ret[1], y.ret[2]>>,
                 x.lookups \o y.lookups, <<Call(x), Call(y)>>)

\* corrupted_y, _ = self.dataset[idx]; return corrupted_x, corrupted_y
Second(idx, x, y) ==
    IF y.status # "ok"
    THEN Wrapped(y.cs, idx, y.status, <<>>, x.lookups \o y.lookups,
                 <<Call(x), Call(y)>>)
    ELSE Wrapped(y.cs, idx, "ok", <<x.ret[1], y.ret[1]>>,
                 x.lookups \o y.lookups, <<Call(x), Call(y)>>)

\* corrupted_x, _ = self.dataset[idx] and what follows
First(idx, d2, x) ==
    IF x.status # "ok"
    THEN Wrapped(x.cs, idx, x.status, <<>>, x.lookups, <<Call(x)>>)
    ELSE Second(idx, x, MixedAudioDataset_getitem(x.cs, idx, d2))

\* N2NMixedAudioDataset.__getitem__(idx) under the draws d1 and d2 of the
\* two wrapped calls
N2NMixedAudioDataset_getitem(cs, idx, d1, d2) ==
    First(idx, d2, MixedAudioDataset_getitem(cs, idx, d1))

(***************************************************************************)
(* The datasets in use: any sequence of MixedAudioDataset[idx] and         *)
(* N2NMixedAudioDataset[idx] calls on one dataset and its cache.           *)
(***************************************************************************)
Cache == [map |-> map, decode_ok |-> decode_ok, decode_err |-> decode_err]

NoCall == [op |-> "none", idx |-> 0, status |-> "ok", ret |-> <<>>,
           lookups |-> <<>>, calls |-> <<>>]

\* dataset[idx], called when no call is in progress; last is what it
\* returned or raised
Get ==
    /\ last.op = "none"
    /\ \E idx \in 1..MixedAudioDataset_len :
         \E d \in DrawsFrom(Cache, idx) :
           \E r \in {MixedAudioDataset_getitem(Cache, idx, d)} :
             /\ map' = r.cs.map
             /\ decode_ok' = r.cs.decode_ok
             /\ decode_err' = r.cs.decode_err
             /\ last' = [op |-> "get", idx |-> idx, status |-> r.status,
                         ret |-> r.ret, lookups |-> r.lookups,
                         calls |-> <<>>]

\* n2n_dataset[idx], called when no call is in progress
N2NGet ==
    /\ last.op = "none"
    /\ \E idx \in 1..N2NMixedAudioDataset_len :
         \E d1 \in DrawsFrom(Cache, idx) :
           \E x \in {MixedAudioDataset_getitem(Cache, idx, d1)} :
             \E d2 \in IF x.status = "ok" THEN DrawsFrom(x.cs, idx) ELSE {d1} :
               \E r \in {N2NMixedAudioDataset_getitem(Cache, idx, d1, d2)} :
                 /\ map' = r.cs.map
                 /\ decode_ok' = r.cs.decode_ok
                 /\ decode_err' = r.cs.decode_err
                 /\ last' = [op |-> "n2n", idx |-> idx, status |-> r.status,
                             ret |-> r.ret, lookups |-> r.lookups,
                             calls |-> r.calls]

\* the caller takes what the call returned or raised; the cache stays
Return ==
    /\ last.op # "none"
    /\ last' = NoCall
    /\ UNCHANGED <<map, decode_ok, decode_err>>

\* CachedLoader.__init__ and the two datasets' __init__
InitDataset ==
    /\ map = <<>>
    /\ decode_ok = [p \in Paths |-> 0]
    /\ decode_err = [p \in Paths |-> 0]
    /\ last = NoCall

(***************************************************************************)
(* pad_seq_n_stack and collate_fn                                          *)
(***************************************************************************)
\* Python's a % b for b # 0: the result has the sign of b
PyMod(a, b) == IF b > 0 THEN a % b ELSE -((-a) % (-b))

Max(S) == CHOOSE m \in S : \A x \in S : x <= m

Zeros(n) == [k \in 1..n |-> Zero]

\* pad_seq_n_stack(wavs, target_len): torch.zeros raises RuntimeError on a
\* negative size; the rows are stacked when every one of them was padded
pad_seq_n_stack(wavs, target_len) ==
    IF \E i \in 1..Len(wavs) : target_len - Len(wavs[i]) < 0
    THEN [status |-> "RuntimeError", rows |-> <<>>]
    ELSE [status |-> "ok",
          rows |-> [i \in 1..Len(wavs) |->
                      wavs[i] \o Zeros(target_len - Len(wavs[i]))]]

\* a variant without the outer % alignment
PadLength_unwrapped(pad_length, align) ==
    pad_length + (align - PyMod(pad_length, align))

\* pad_length += (alignment - pad_length % alignment) % alignment
PadLength(pad_length, align) ==
    pad_length + PyMod(align - PyMod(pad_length, align), align)

\* collate_fn(alignment, batch), batch a non-empty list of (mixed, clean)
collate_fn(align, b) ==
    LET pad_length == Max({Len(b[i][1]) : i \in 1..Len(b)}) IN
    IF align = 0
    THEN [status |-> "ZeroDivisionError", pad_length |-> pad_length,
          mixed |-> <<>>, clean |-> <<>>]
    ELSE
    LET padded == PadLength(pad_length, align)
        m == pad_seq_n_stack([i \in 1..Len(b) |-> b[i][1]], padded)
        c == pad_seq_n_stack([i \in 1..Len(b) |-> b[i][2]], padded)
    IN IF m.status # "ok"
       THEN [status |-> m.status, pad_length |-> padded,
             mixed |-> <<>>, clean |-> <<>>]
       ELSE IF c.status # "ok"
       THEN [status |-> c.status, pad_length |-> padded,
             mixed |-> <<>>, clean |-> <<>>]
       ELSE [status |-> "ok", pad_length |-> padded,
             mixed |-> m.rows, clean |-> c.rows]

(***************************************************************************)
(* The collation on its own: Init draws the alignment and the batch, the   *)
(* one action applies collate_fn.                                          *)
(***************************************************************************)
\* the (mixed, clean) pairs a dataset yields: two waveforms of one length
Examples ==
    {<<Channel(n, len), Channel(n + 1, len)>> : n \in 0..1, len \in 1..MaxWav}

NotCollated == [pc |-> "call", status |-> "ok", pad_length |-> 0,
                mixed |-> <<>>, clean |-> <<>>]

CollateInputs ==
    /\ alignment \in (-MaxAlign)..MaxAlign
    /\ batch \in SeqsOf(Examples, 1, MaxBatch)

CollateCall ==
    /\ collated.pc = "call"
    /\ \E r \in {collate_fn(alignment, batch)} :
         collated' = [pc |-> "done", status |-> r.status,
                      pad_length |-> r.pad_length,
                      mixed |-> r.mixed, clean |-> r.clean]
    /\ UNCHANGED <<alignment, batch>>

InitCollate ==
    /\ CollateInputs
    /\ collated = NotCollated
    /\ map = <<>>
    /\ decode_ok = <<>>
    /\ decode_err = <<>>
    /\ last = <<>>
    /\ clean_audio = <<>>
    /\ dirty_audio = <<>>
    /\ mix = <<>>

NextCollate == CollateCall /\ UNCHANGED dataset_vars /\ UNCHANGED mix_vars

SpecCollate == InitCollate /\ [][NextCollate]_vars

\* the variables of the other two specifications, at rest
DatasetIdle ==
    /\ map = <<>>
    /\ decode_ok = <<>>
    /\ decode_err = <<>>
    /\ last = <<>>

CollateIdle ==
    /\ alignment = 1
    /\ batch = <<>>
    /\ collated = NotCollated

MixIdle ==
    /\ clean_audio = <<>>
    /\ dirty_audio = <<>>
    /\ mix = <<>>

InitMix ==
    /\ MixInputs
    /\ mix = NoMix
    /\ DatasetIdle
    /\ CollateIdle

NextMix ==
    \/ MixCall /\ UNCHANGED dataset_vars /\ UNCHANGED collate_vars
    \/ MixRaise /\ UNCHANGED dataset_vars /\ UNCHANGED collate_vars

SpecMix == InitMix /\ [][NextMix]_vars

\* every sample of the waveform w lies within [-1, 1]
AllInUnit(w) == \A i \in 1..Len(w) : InUnit(w[i])

\* clean + weight * dirty, sample by sample
Weighted(clean, weight, dirty) ==
    [i \in 1..Len(clean) |-> FAdd(clean[i], FMul(weight, dirty[i]))]

\* the weights the tightness statement is tried on: w + 1/k, k in 1..Q
Above(w) == {FAdd(w, Rat(1, k)) : k \in 1..Q}

\* C1: every sample of the waveform a valid mixing call returns lies
\* within [-1, 1].
C1_MixedInUnit == mix.pc = "done" => AllInUnit(mix.out)

\* C2: max_weight is the largest safe weight: clean + w * segment stays
\* within [-1, 1], and every larger weight puts some sample outside.
C2_MaxWeightTight ==
    (mix.pc = "done" /\ \E i \in 1..Len(mix.segment) : mix.segment[i] # Zero)
    => /\ AllInUnit(Weighted(clean_audio, mix.max_mul, mix.segment))
       /\ \A weight \in Above(mix.max_mul) :
            ~AllInUnit(Weighted(clean_audio, weight, mix.segment))

\* the half of C2 the code does keep: the weight is safe
MaxWeightSafe ==
    (mix.pc = "done" /\ \E i \in 1..Len(mix.segment) : mix.segment[i] # Zero)
    => AllInUnit(Weighted(clean_audio, mix.max_mul, mix.segment))

\* C9: over an all-silence segment max_weight is infinite and the mix
\* equals clean sample for sample.
C9_SilenceLeavesClean ==
    (mix.pc = "done" /\ \A i \in 1..Len(mix.segment) : mix.segment[i] = Zero)
    => /\ mix.max_mul = PosInf
       /\ mix.out = clean_audio

\* the half of C9 the code does keep: the weight is infinite
SilenceUnbounded ==
    (mix.pc = "done" /\ \A i \in 1..Len(mix.segment) : mix.segment[i] = Zero)
    => mix.max_mul = PosInf

\* C1 away from the all-silence segment
MixedInUnitUnlessSilent ==
    (mix.pc = "done" /\ \E i \in 1..Len(mix.segment) : mix.segment[i] # Zero)
    => AllInUnit(mix.out)

Init ==
    /\ InitDataset
    /\ MixIdle
    /\ CollateIdle

Next ==
    \/ Get /\ UNCHANGED mix_vars /\ UNCHANGED collate_vars
    \/ N2NGet /\ UNCHANGED mix_vars /\ UNCHANGED collate_vars
    \/ Return /\ UNCHANGED mix_vars /\ UNCHANGED collate_vars

Spec == Init /\ [][Next]_vars

(***************************************************************************)
(* Claims about the collation (SpecCollate).                               *)
(***************************************************************************)
\* the longest mixed waveform of the batch
LongestMixed == Max({Len(batch[i][1]) : i \in 1..Len(batch)})

\* row is wav followed only by zeros, and is len long
PaddedTo(row, wav, len) ==
    /\ Len(row) = len
    /\ \A k \in 1..Len(wav) : row[k] = wav[k]
    /\ \A k \in (Len(wav) + 1)..len : row[k] = Zero

\* C3: with a positive alignment collate returns two B x L tensors, L the
\* smallest multiple of alignment that is >= the longest mixed waveform,
\* every row the original waveform followed only by zeros.
C3_CollatePads ==
    (collated.pc = "done" /\ alignment > 0)
    => /\ collated.status = "ok"
       /\ collated.pad_length % alignment = 0
       /\ collated.pad_length >= LongestMixed
       /\ collated.pad_length - alignment < LongestMixed
       /\ Len(collated.mixed) = Len(batch)
       /\ Len(collated.clean) = Len(batch)
       /\ \A i \in 1..Len(batch) :
            /\ PaddedTo(collated.mixed[i], batch[i][1], collated.pad_length)
            /\ PaddedTo(collated.clean[i], batch[i][2], collated.pad_length)

\* a batch of different lengths whose longest is and is not a multiple of
\* the alignment, padded
C3_Witness ==
    /\ collated.pc = "done"
    /\ collated.status = "ok"
    /\ alignment = 3
    /\ Len(batch) = 2
    /\ Len(batch[1][1]) = 1
    /\ Len(batch[2][1]) = 2
    /\ collated.pad_length = 3

\* the length is left alone when it is a multiple of the alignment
C3_AlignedWitness ==
    /\ collated.pc = "done"
    /\ alignment = 2
    /\ LongestMixed = 4
    /\ collated.pad_length = 4

\* C5: collate with an alignment <= 0 raises an error and returns no batch.
C5_BadAlignmentRaises ==
    (collated.pc = "done" /\ alignment <= 0) => collated.status # "ok"

\* the part of C5 the code keeps: an alignment of 0 raises
ZeroAlignmentRaises ==
    (collated.pc = "done" /\ alignment = 0)
    => collated.status = "ZeroDivisionError"

\* and what a negative alignment does: it rounds the length down, which
\* raises exactly when that cuts the longest waveform
NegativeAlignmentRoundsDown ==
    (collated.pc = "done" /\ alignment < 0)
    => (collated.status = "ok" <=> LongestMixed % (-alignment) = 0)

(***************************************************************************)
(* Claims about the datasets and the cache (Spec).                         *)
(***************************************************************************)
\* what a file decodes to
Decoded(path) == read_wav_at_FS([status |-> "ok", y |-> Recording(path)]).wav

\* C4: a path is decoded at most once; a populated entry is never removed
\* or replaced; every lookup of a populated path returns the stored
\* waveform without decoding.
C4_DecodeOnce ==
    [][/\ \A p \in Paths : decode_ok'[p] <= 1
       /\ \A p \in Paths : (p \in DOMAIN map') <=> (decode_ok'[p] = 1)
       /\ \A p \in DOMAIN map : p \in DOMAIN map' /\ map'[p] = map[p]
       /\ \A i \in 1..Len(last'.lookups) :
            LET e == last'.lookups[i] IN
            /\ e.key \in DOMAIN map => (~e.decoded /\ e.value = map[e.key])
            /\ \A j \in 1..(i - 1) :
                 (last'.lookups[j].key = e.key
                  /\ last'.lookups[j].status = "ok")
                 => (~e.decoded /\ e.value = last'.lookups[j].value)
            /\ e.status = "ok" => e.value = map'[e.key]
      ]_vars

\* a call that found its clean file in the cache, decoded once before
C4_Witness ==
    /\ last.op = "get"
    /\ last.status = "ok"
    /\ ~last.lookups[1].decoded
    /\ decode_ok[last.lookups[1].key] = 1
    /\ ~last.lookups[2].decoded

\* C6: when the dirty waveform drawn is shorter than the clean one the call
\* raises and returns no pair; one dirty file is looked up and no other.
C6_ShortDirtyRaises ==
    last.op = "get"
    => /\ Len(last.lookups) <= 2
       /\ (/\ Len(last.lookups) = 2
           /\ last.lookups[2].status = "ok"
           /\ Len(last.lookups[2].value) < Len(last.lookups[1].value))
          => (last.status = "ValueError" /\ last.ret = <<>>)

C6_Witness ==
    /\ last.op = "get"
    /\ last.status = "ValueError"
    /\ Len(last.lookups[2].value) < Len(last.lookups[1].value)

\* C7: a successful get(i) returns as its second element the waveform of
\* the clean file at position i, whatever was drawn, and a mixed waveform
\* of the same length; the dataset is as long as the list of clean files.
C7_CleanOfIndex ==
    /\ MixedAudioDataset_len = Cardinality(Range(clean_files))
    /\ (last.op = "get" /\ last.status = "ok")
       => /\ last.ret[2] = Decoded(clean_files[last.idx])
          /\ last.ret[2] = map[clean_files[last.idx]]
          /\ Len(last.ret[1]) = Len(last.ret[2])

\* get(2) returned after the dirty file was drawn, cut and weighted
C7_Witness ==
    /\ last.op = "get"
    /\ last.status = "ok"
    /\ last.idx = 2
    /\ last.ret[1] # last.ret[2]

\* C8: a successful n2n get(i) made exactly two wrapped calls, both with
\* index i, the second after the first, and returns their two mixed
\* waveforms, which are as long as clean file i; the lengths of the two
\* datasets agree.
C8_TwoMixes ==
    /\ N2NMixedAudioDataset_len = MixedAudioDataset_len
    /\ (last.op = "n2n" /\ last.status = "ok")
       => /\ Len(last.calls) = 2
          /\ last.calls[1].idx = last.idx
          /\ last.calls[2].idx = last.idx
          /\ last.calls[1].status = "ok"
          /\ last.calls[2].status = "ok"
          /\ last.ret = <<last.calls[1].ret[1], last.calls[2].ret[1]>>
          /\ Len(last.ret[1]) = Len(Decoded(clean_files[last.idx]))
          /\ Len(last.ret[2]) = Len(last.ret[1])
          /\ Len(last.lookups) = 4
          /\ ~last.lookups[3].decoded

\* two different mixes of clean file 1 returned
C8_Witness ==
    /\ last.op = "n2n"
    /\ last.status = "ok"
    /\ last.idx = 1
    /\ last.ret[1] # last.ret[2]
    /\ last.ret[1] # last.calls[1].ret[2]

\* C10: a lookup that fails in the decoder raises to the caller, stores
\* nothing and changes no other entry, so that the next lookup of the path
\* calls the decoder again; a get that fails on its dirty file leaves its
\* clean file cached.
C10_FailedDecodeLeavesCache ==
    [][/\ \A p \in Paths :
            decode_err'[p] # decode_err[p]
            => /\ decode_err'[p] = decode_err[p] + 1
               /\ last'.status = "DecodeError"
               /\ last'.ret = <<>>
               /\ last'.lookups[Len(last'.lookups)].key = p
               /\ last'.lookups[Len(last'.lookups)].status = "DecodeError"
               /\ p \notin DOMAIN map'
               /\ decode_ok'[p] = 0
       /\ \A i \in 1..Len(last'.lookups) :
            LET e == last'.lookups[i]
                Earlier == {last'.lookups[j].key : j \in 1..(i - 1)}
            IN /\ (e.key \notin DOMAIN map /\ e.key \notin Earlier)
                  => e.decoded
               /\ e.status # "ok"
                  => /\ e.decoded
                     /\ i = Len(last'.lookups)
                     /\ last'.status = e.status
                     /\ decode_err'[e.key] = decode_err[e.key] + 1
                     /\ \A p \in DOMAIN map :
                          p \in DOMAIN map' /\ map'[p] = map[p]
                     /\ DOMAIN map' = DOMAIN map \cup Earlier
                     /\ (last'.op = "get" /\ i = 2)
                        => clean_files[last'.idx] \in DOMAIN map'
      ]_vars

\* a get that failed on its dirty file, in a run where another path was
\* decoded after its decoder had failed
C10_Witness ==
    /\ last.op = "get"
    /\ last.status = "DecodeError"
    /\ Len(last.lookups) = 2
    /\ clean_files[last.idx] \in DOMAIN map
    /\ last.lookups[2].key \notin DOMAIN map
    /\ \E p \in Paths : decode_err[p] >= 1 /\ decode_ok[p] = 1

====
